---- MODULE Spec2Model ----
(***************************************************************************)
(* The exercise tracker REST API of this repository, in its three          *)
(* variants:                                                               *)
(*   "server"  src/server.js                     (Express app)             *)
(*   "app"     src/unnamed/part_000 lines 76-295 (Express app)             *)
(*   "router"  src/unnamed/part_000 lines 1-74   (Express router)          *)
(* One behaviour runs one variant against its own MongoDB database.        *)
(*                                                                         *)
(* Granularity.  Node runs the synchronous code of a handler atomically    *)
(* and yields at every await; the store executes each awaited operation    *)
(* atomically.  No handler updates or deletes a user, and no handler       *)
(* updates or deletes an exercise, so a findById of a handler returns the  *)
(* same document whenever it runs before the handler's last store          *)
(* operation, and every handler whose store operations are findById        *)
(* followed by one more operation is equivalent to the same handler run    *)
(* in one step at its last operation.  Those handlers are one action.      *)
(* The one check-then-act sequence is the creation of a user (findOne,     *)
(* then save): it is two actions, and the request is in flight, in a       *)
(* slot, between them.  The steps of other requests and of the clock       *)
(* commute with the steps of a request in flight (they neither read what   *)
(* it writes nor write what it reads before its save), so only user        *)
(* creations are interleaved with a user creation in flight.               *)
(*                                                                         *)
(* lastResp holds the response of the request that just ended, until the   *)
(* client has taken it (Deliver); responses are delivered one at a time.   *)
(*                                                                         *)
(* Time is counted in ticks, TicksPerDay ticks to a calendar day; the      *)
(* process runs in UTC.  Text fields that the code parses as numbers are   *)
(* sequences of characters; the empty text stands for a missing or empty   *)
(* field (both are falsy in JavaScript).                                   *)
(***************************************************************************)
EXTENDS Integers, Sequences, FiniteSets, TLC

MaxExercises == 2
MaxTime == 2
TicksPerDay == 2

Slots == {"r1", "r2"}

Variants == {"server", "app", "router"}

VARIABLES
    variant,      \* which of the three programs runs
    users,        \* the users collection, in insertion order
    exercises,    \* the exercises (router: the embedded log entries), in insertion order
    now,          \* the clock read by new Date()
    slot,         \* the user creations in flight, suspended between findOne and save
    lastResp,     \* the outcome of the request that just ended, until it is delivered
    acked         \* bodies of the successful add-exercise responses, oldest first

vars == <<variant, users, exercises, now, slot, lastResp, acked>>

-----------------------------------------------------------------------------
(* JavaScript values *)

NaN == [nan |-> TRUE, n |-> 0]
Num(k) == [nan |-> FALSE, n |-> k]
isNaN(x) == x.nan

DigitChars == {"0", "1", "2", "3", "4", "5", "6", "7", "8", "9"}

DigitVal(c) ==
    CASE c = "0" -> 0 [] c = "1" -> 1 [] c = "2" -> 2 [] c = "3" -> 3
      [] c = "4" -> 4 [] c = "5" -> 5 [] c = "6" -> 6 [] c = "7" -> 7
      [] c = "8" -> 8 [] c = "9" -> 9

RECURSIVE ParseDigits(_, _, _)
ParseDigits(s, i, acc) ==
    IF i > Len(s) \/ s[i] \notin DigitChars
    THEN [n |-> acc, next |-> i]
    ELSE ParseDigits(s, i + 1, acc * 10 + DigitVal(s[i]))

\* parseInt(text): optional sign, then the longest prefix of digits; NaN if none.
parseInt(s) ==
    LET neg   == Len(s) > 0 /\ s[1] = "-"
        start == IF neg THEN 2 ELSE 1
        r     == ParseDigits(s, start, 0)
    IN  IF r.next = start THEN NaN
        ELSE Num(IF neg THEN 0 - r.n ELSE r.n)

\* Number(text): the whole text must be a numeral; the empty text is 0.
Number(s) ==
    LET neg   == Len(s) > 0 /\ s[1] = "-"
        start == IF neg THEN 2 ELSE 1
        r     == ParseDigits(s, start, 0)
    IN  IF s = <<>> THEN Num(0)
        ELSE IF r.next = start \/ r.next <= Len(s) THEN NaN
        ELSE Num(IF neg THEN 0 - r.n ELSE r.n)

\* Truthiness of a field: false for the empty (or missing) one.
Truthy(s) == s # ""
TruthyText(s) == s # <<>>

-----------------------------------------------------------------------------
(* Dates *)

MaxDay == MaxTime \div TicksPerDay

DayStrings == <<"1970-01-01", "1970-01-02", "1970-01-03", "1970-01-04",
                "1970-01-05", "1970-01-06", "1970-01-07">>
DateStrings == <<"Thu Jan 01 1970", "Fri Jan 02 1970", "Sat Jan 03 1970",
                 "Sun Jan 04 1970", "Mon Jan 05 1970", "Tue Jan 06 1970",
                 "Wed Jan 07 1970">>

IsoDay(d) == DayStrings[d + 1]

\* A JSON body may carry a number where a string is expected.
JsonNumber == "json:1"

InvalidDate == [valid |-> FALSE, t |-> 0]
DateAt(t) == [valid |-> TRUE, t |-> t]

\* new Date(text): a yyyy-mm-dd text is midnight UTC of that day.
NewDate(s) ==
    IF \E d \in 0..MaxDay : IsoDay(d) = s
    THEN DateAt((CHOOSE d \in 0..MaxDay : IsoDay(d) = s) * TicksPerDay)
    ELSE IF s = JsonNumber THEN DateAt(0)
    ELSE InvalidDate

\* date.setHours(23, 59, 59, 999)
setHoursEndOfDay(t) == (t \div TicksPerDay) * TicksPerDay + (TicksPerDay - 1)

\* date.toDateString()
toDateString(t) == DateStrings[(t \div TicksPerDay) + 1]

-----------------------------------------------------------------------------
(* Request inputs *)

Usernames == {"", "ann", "bob"}
ObjectIds == <<"id1", "id2", "id3", "id4", "id5", "id6", "id7", "id8">>
MalformedId == "zz"
IdParams == {"id1", "id2", MalformedId}
Descriptions == {"", "run"}
DurationInputs == {<<>>, <<"0">>, <<"-", "1">>, <<"3">>, <<"3", "x">>, <<"x">>}
DateInputs == {"", "garbage", JsonNumber} \cup {IsoDay(d) : d \in 0..MaxDay}
RangeInputs == {"", "garbage"} \cup {IsoDay(d) : d \in 0..MaxDay}
LimitInputs == {<<>>, <<"0">>, <<"-", "1">>, <<"1">>, <<"x">>}

-----------------------------------------------------------------------------
(* The store *)

Idle == [pc |-> "idle"]
NoResp == [kind |-> "none"]

Range(f) == {f[i] : i \in DOMAIN f}

\* User.findOne({username})
FindOne(name) ==
    IF \E i \in DOMAIN users : users[i].username = name
    THEN {users[CHOOSE i \in DOMAIN users : users[i].username = name]}
    ELSE {}

\* User.findById(id) for a well-formed id
FindById(id) == {u \in Range(users) : u.id = id}

\* casting the :_id parameter to an ObjectId
Castable(id) == \E i \in DOMAIN ObjectIds : ObjectIds[i] = id

\* a faulty schema: username without unique: true
DuplicateKeyNoIndex(name) == FALSE

\* unique: true on username: the unique index rejects a second document (E11000)
DuplicateKey(name) == \E i \in DOMAIN users : users[i].username = name

NewUser(name) == [id |-> ObjectIds[Len(users) + 1], username |-> name]

\* new Exercise({userId, description, duration, date})
ExerciseDoc(uid, description, duration, date) ==
    [userId |-> uid, description |-> description, duration |-> duration, date |-> date]

\* One side of a date condition: no operator, an operator with null, or a value.
NoBound == [op |-> "none", t |-> 0]
NullBound == [op |-> "null", t |-> 0]
ValBound(t) == [op |-> "val", t |-> t]

\* $gte and $lte as MongoDB evaluates them: a comparison with null matches no
\* document whose date is a date.
MatchGte(date, b) == b.op = "none" \/ (b.op = "val" /\ date >= b.t)
MatchLte(date, b) == b.op = "none" \/ (b.op = "val" /\ date <= b.t)

\* Exercise.find({userId, date: {$gte, $lte}}), in natural (insertion) order
Find(uid, gte, lte) ==
    SelectSeq(exercises,
              LAMBDA e : e.userId = uid /\ MatchGte(e.date, gte) /\ MatchLte(e.date, lte))

Min(a, b) == IF a <= b THEN a ELSE b
Max(a, b) == IF a >= b THEN a ELSE b

\* query.limit(n), n > 0
Limit(docs, n) == SubSeq(docs, 1, Min(n, Len(docs)))

\* a faulty query: the limit applied to the documents of the user before the date condition
FindLimitedBeforeFilter(n, uid, gte, lte) ==
    SelectSeq(Limit(Find(uid, NoBound, NoBound), n),
              LAMBDA e : MatchGte(e.date, gte) /\ MatchLte(e.date, lte))

\* Exercise.find(conditions).limit(n).exec()
FindLimited(n, uid, gte, lte) == Limit(Find(uid, gte, lte), n)

\* array.slice(0, end)
Slice0(arr, end) ==
    LET e == IF isNaN(end) THEN 0
             ELSE IF end.n < 0 THEN Max(Len(arr) + end.n, 0)
             ELSE Min(end.n, Len(arr))
    IN  SubSeq(arr, 1, e)

\* exercises.map(ex => ({description, duration, date: ex.date.toDateString()}))
LogEntry(e) ==
    [description |-> e.description, duration |-> e.duration, date |-> toDateString(e.date)]

MapLog(docs) == [i \in DOMAIN docs |-> LogEntry(docs[i])]

-----------------------------------------------------------------------------
(* Responses *)

Error(msg) == [error |-> msg]

\* res.status(status).json(body)
Json(kind, req, status, body, ghost) ==
    [kind |-> kind, req |-> req, status |-> status, escaped |-> FALSE,
     body |-> body, ghost |-> ghost]

\* An exception or rejection that leaves an async handler without a try block:
\* Express 4 does not see it, the request gets no response.
Unhandled(kind, req, ghost) ==
    [kind |-> kind, req |-> req, status |-> 0, escaped |-> TRUE,
     body |-> Error("unhandled rejection"), ghost |-> ghost]

NoneInFlight == \A s \in Slots : slot[s].pc = "idle"

\* a request can be received and run to its response in one step
Ready == NoneInFlight /\ lastResp = NoResp

\* a handler that runs to its response in this step
Respond(r) ==
    /\ lastResp' = r
    /\ UNCHANGED slot

\* a user creation ends
Done(s, r) ==
    /\ lastResp' = r
    /\ slot' = [slot EXCEPT ![s] = Idle]

\* a user creation waits for its save
Suspend(s, c) ==
    /\ slot' = [slot EXCEPT ![s] = c]
    /\ UNCHANGED lastResp

UserGhost(existed, created, failed) ==
    [existed |-> existed, created |-> created, storeFailed |-> failed]

ExerciseGhost(userExists, stored, failed) ==
    [userExists |-> userExists, stored |-> stored, storeFailed |-> failed]

LogGhost(userExists, failed) ==
    [userExists |-> userExists, storeFailed |-> failed]

UserJson(u) == [username |-> u.username, id |-> u.id]

UsersJson == [i \in DOMAIN users |-> UserJson(users[i])]

ExerciseJson(user, doc) ==
    [id |-> user.id, username |-> user.username, description |-> doc.description,
     duration |-> doc.duration, date |-> toDateString(doc.date)]

LogJson(user, docs) ==
    [id |-> user.id, username |-> user.username, count |-> Len(MapLog(docs)),
     log |-> MapLog(docs)]

StoreFailures == {"none", "find", "save"}

-----------------------------------------------------------------------------
Init ==
    /\ variant \in Variants
    /\ users = <<>>
    /\ exercises = <<>>
    /\ now = 0
    /\ slot = [s \in Slots |-> Idle]
    /\ lastResp = NoResp
    /\ acked = <<>>

\* the clock advances
Tick ==
    /\ now < MaxTime
    /\ Ready
    /\ now' = now + 1
    /\ UNCHANGED <<variant, users, exercises, slot, lastResp, acked>>

\* the client takes the response
Deliver ==
    /\ lastResp # NoResp
    /\ lastResp' = NoResp
    /\ UNCHANGED <<variant, users, exercises, now, slot, acked>>

\* the exercise store has room
Room == Len(exercises) < MaxExercises

\* a faulty handler: the response sent without the document being saved
SaveExerciseLost(user, doc) ==
    /\ Len(acked) < MaxExercises
    /\ exercises' = exercises
    /\ acked' = Append(acked, ExerciseJson(user, doc))

\* newExercise.save() and the success response
SaveExercise(user, doc) ==
    /\ Room
    /\ exercises' = Append(exercises, doc)
    /\ acked' = Append(acked, ExerciseJson(user, doc))

-----------------------------------------------------------------------------
(* src/server.js *)

ServerPostUsers(s) ==
    /\ variant = "server"
    /\ slot[s].pc = "idle"
    /\ lastResp = NoResp
    /\ \E username \in Usernames, ok \in BOOLEAN :
        LET req   == [username |-> username]
            found == FindOne(username)
        IN  IF ~Truthy(username)
            THEN Done(s, Json("createUser", req, 400, Error("Username is required"),
                              UserGhost(FALSE, FALSE, FALSE)))
            ELSE IF ~ok
            THEN Done(s, Json("createUser", req, 500, Error("Server error while creating user"),
                              UserGhost(found # {}, FALSE, TRUE)))
            ELSE IF found # {}
            THEN Done(s, Json("createUser", req, 200, UserJson(CHOOSE u \in found : TRUE),
                              UserGhost(TRUE, FALSE, FALSE)))
            ELSE Suspend(s, [pc |-> "userSave", req |-> req])
    /\ UNCHANGED <<variant, users, exercises, now, acked>>

ServerPostUsersSave(s) ==
    /\ variant = "server"
    /\ slot[s].pc = "userSave"
    /\ lastResp = NoResp
    /\ \E ok \in BOOLEAN :
        LET req  == slot[s].req
            user == NewUser(req.username)
        IN  IF ~ok
            THEN /\ Done(s, Json("createUser", req, 500, Error("Server error while creating user"),
                                 UserGhost(FALSE, FALSE, TRUE)))
                 /\ UNCHANGED users
            ELSE IF DuplicateKey(req.username)
            THEN /\ Done(s, Json("createUser", req, 400, Error("Username already taken"),
                                 UserGhost(FALSE, FALSE, FALSE)))
                 /\ UNCHANGED users
            ELSE /\ users' = Append(users, user)
                 /\ Done(s, Json("createUser", req, 200, UserJson(user),
                                 UserGhost(FALSE, TRUE, FALSE)))
    /\ UNCHANGED <<variant, exercises, now, acked>>

ServerGetUsers ==
    /\ variant = "server"
    /\ Ready
    /\ \E ok \in BOOLEAN :
        IF ok
        THEN Respond(Json("listUsers", <<>>, 200, UsersJson, [storeFailed |-> FALSE]))
        ELSE Respond(Json("listUsers", <<>>, 500, Error("Server error while fetching users"),
                          [storeFailed |-> TRUE]))
    /\ UNCHANGED <<variant, users, exercises, now, acked>>

ServerPostExercises ==
    /\ variant = "server"
    /\ Ready
    /\ \E id \in IdParams, description \in Descriptions, duration \in DurationInputs,
          date \in DateInputs, failure \in StoreFailures :
        LET req         == [id |-> id, description |-> description,
                            duration |-> duration, date |-> date]
            durationNum == parseInt(duration)
            parsed      == NewDate(date)
            dateObj     == IF Truthy(date) /\ parsed.valid THEN parsed.t ELSE now
            found       == FindById(id)
            user        == CHOOSE u \in found : TRUE
            newExercise == ExerciseDoc(user.id, description, durationNum.n, dateObj)
            fail(status, msg, f) ==
                /\ Respond(Json("addExercise", req, status, Error(msg),
                                ExerciseGhost(found # {}, FALSE, f)))
                /\ UNCHANGED <<exercises, acked>>
        IN  IF ~Truthy(description) \/ ~TruthyText(duration)
            THEN fail(400, "Description and duration are required.", FALSE)
            ELSE IF isNaN(durationNum)
            THEN fail(400, "Duration must be a number.", FALSE)
            ELSE IF date = JsonNumber   \* date.trim is not a function, outside the try block
            THEN /\ Respond(Unhandled("addExercise", req, ExerciseGhost(found # {}, FALSE, FALSE)))
                 /\ UNCHANGED <<exercises, acked>>
            ELSE IF ~Castable(id)
            THEN fail(400, "Invalid user ID format", FALSE)
            ELSE IF failure = "find"
            THEN fail(500, "Server error while adding exercise", TRUE)
            ELSE IF found = {}
            THEN fail(404, "User not found", FALSE)
            ELSE IF failure = "save"
            THEN fail(500, "Server error while adding exercise", TRUE)
            ELSE /\ SaveExercise(user, newExercise)
                 /\ Respond(Json("addExercise", req, 200, ExerciseJson(user, newExercise),
                                 ExerciseGhost(TRUE, TRUE, FALSE)))
    /\ UNCHANGED <<variant, users, now>>

\* dateFilter: $gte the from date, $lte the end of the to day
ServerDateFilter(from, to) ==
    [gte |-> IF Truthy(from) THEN ValBound(NewDate(from).t) ELSE NoBound,
     lte |-> IF Truthy(to) THEN ValBound(setHoursEndOfDay(NewDate(to).t)) ELSE NoBound]

ServerGetLogs ==
    /\ variant = "server"
    /\ Ready
    /\ \E id \in IdParams, from \in RangeInputs, to \in RangeInputs,
          limit \in LimitInputs, failure \in StoreFailures :
        LET req      == [id |-> id, from |-> from, to |-> to, limit |-> limit]
            found    == FindById(id)
            user     == CHOOSE u \in found : TRUE
            fromDate == NewDate(from)
            toDate   == NewDate(to)
            cond     == ServerDateFilter(from, to)
            limitNum == parseInt(limit)
            exercisesFound ==
                IF TruthyText(limit) /\ ~isNaN(limitNum) /\ limitNum.n > 0
                THEN FindLimited(limitNum.n, id, cond.gte, cond.lte)
                ELSE Find(id, cond.gte, cond.lte)
            fail(status, msg, f) ==
                Respond(Json("getLog", req, status, Error(msg), LogGhost(found # {}, f)))
        IN  IF ~Castable(id)
            THEN fail(400, "Invalid user ID format", FALSE)
            ELSE IF failure = "find"
            THEN fail(500, "Server error while fetching logs", TRUE)
            ELSE IF found = {}
            THEN fail(404, "User not found", FALSE)
            ELSE IF Truthy(from) /\ ~fromDate.valid
            THEN fail(400, "Invalid from date format. Use yyyy-mm-dd.", FALSE)
            ELSE IF Truthy(to) /\ ~toDate.valid
            THEN fail(400, "Invalid to date format. Use yyyy-mm-dd.", FALSE)
            ELSE IF TruthyText(limit) /\ ~isNaN(limitNum) /\ limitNum.n <= 0
            THEN fail(400, "Invalid limit value. Must be a positive integer.", FALSE)
            ELSE IF failure = "save"   \* exerciseQuery.exec() fails
            THEN fail(500, "Server error while fetching logs", TRUE)
            ELSE Respond(Json("getLog", req, 200, LogJson(user, exercisesFound),
                              LogGhost(TRUE, FALSE)))
    /\ UNCHANGED <<variant, users, exercises, now, acked>>

-----------------------------------------------------------------------------
(* src/unnamed/part_000, lines 76-295 *)

AppPostUsers(s) ==
    /\ variant = "app"
    /\ slot[s].pc = "idle"
    /\ lastResp = NoResp
    /\ \E username \in Usernames, ok \in BOOLEAN :
        LET req          == [username |-> username]
            existingUser == FindOne(username)
        IN  IF ~Truthy(username)
            THEN Done(s, Json("createUser", req, 400, Error("El nombre de usuario es requerido"),
                              UserGhost(FALSE, FALSE, FALSE)))
            ELSE IF ~ok
            THEN Done(s, Json("createUser", req, 500, Error("Fallo la creacion del usuario"),
                              UserGhost(existingUser # {}, FALSE, TRUE)))
            ELSE IF existingUser # {}
            THEN Done(s, Json("createUser", req, 200, UserJson(CHOOSE u \in existingUser : TRUE),
                              UserGhost(TRUE, FALSE, FALSE)))
            ELSE Suspend(s, [pc |-> "userSave", req |-> req])
    /\ UNCHANGED <<variant, users, exercises, now, acked>>

AppPostUsersSave(s) ==
    /\ variant = "app"
    /\ slot[s].pc = "userSave"
    /\ lastResp = NoResp
    /\ \E ok \in BOOLEAN :
        LET req       == slot[s].req
            savedUser == NewUser(req.username)
        IN  IF ~ok
            THEN /\ Done(s, Json("createUser", req, 500, Error("Fallo la creacion del usuario"),
                                 UserGhost(FALSE, FALSE, TRUE)))
                 /\ UNCHANGED users
            ELSE IF DuplicateKey(req.username)
            THEN /\ Done(s, Json("createUser", req, 400, Error("El nombre de usuario ya existe."),
                                 UserGhost(FALSE, FALSE, FALSE)))
                 /\ UNCHANGED users
            ELSE /\ users' = Append(users, savedUser)
                 /\ Done(s, Json("createUser", req, 200, UserJson(savedUser),
                                 UserGhost(FALSE, TRUE, FALSE)))
    /\ UNCHANGED <<variant, exercises, now, acked>>

AppGetUsers ==
    /\ variant = "app"
    /\ Ready
    /\ \E ok \in BOOLEAN :
        IF ok
        THEN Respond(Json("listUsers", <<>>, 200, UsersJson, [storeFailed |-> FALSE]))
        ELSE Respond(Json("listUsers", <<>>, 500, Error("Error al obtener la lista de usuarios"),
                          [storeFailed |-> TRUE]))
    /\ UNCHANGED <<variant, users, exercises, now, acked>>

AppPostExercises ==
    /\ variant = "app"
    /\ Ready
    /\ \E id \in IdParams, description \in Descriptions, duration \in DurationInputs,
          date \in DateInputs, failure \in StoreFailures :
        LET req            == [id |-> id, description |-> description,
                               duration |-> duration, date |-> date]
            found          == FindById(id)
            user           == CHOOSE u \in found : TRUE
            parsed         == NewDate(date)
            exerciseDate   == IF Truthy(date) THEN parsed.t ELSE now
            parsedDuration == parseInt(duration)
            newExercise    == ExerciseDoc(user.id, description, parsedDuration.n, exerciseDate)
            fail(status, msg, f) ==
                /\ Respond(Json("addExercise", req, status, Error(msg),
                                ExerciseGhost(found # {}, FALSE, f)))
                /\ UNCHANGED <<exercises, acked>>
        IN  IF ~Truthy(description) \/ ~TruthyText(duration)
            THEN fail(400, "Descripcion y duracion son requeridas.", FALSE)
            ELSE IF ~Castable(id)
            THEN fail(400, "ID de usuario invalido", FALSE)
            ELSE IF failure = "find"
            THEN fail(500, "Error al guardar el ejercicio", TRUE)
            ELSE IF found = {}
            THEN fail(404, "Usuario no encontrado con ese ID", FALSE)
            ELSE IF Truthy(date) /\ ~parsed.valid
            THEN fail(400, "Formato de fecha invalido", FALSE)
            ELSE IF isNaN(parsedDuration) \/ parsedDuration.n <= 0
            THEN fail(400, "La duracion debe ser un numero positivo.", FALSE)
            ELSE IF failure = "save"
            THEN fail(500, "Error al guardar el ejercicio", TRUE)
            ELSE /\ SaveExercise(user, newExercise)
                 /\ Respond(Json("addExercise", req, 200, ExerciseJson(user, newExercise),
                                 ExerciseGhost(TRUE, TRUE, FALSE)))
    /\ UNCHANGED <<variant, users, now>>

\* dateFilter and query.where('date').gte(dateFilter.$gte).lte(dateFilter.$lte): with
\* one bound given both operators are set, and the undefined operand is cast to null
AppDateFilter(from, to) ==
    IF ~Truthy(from) /\ ~Truthy(to)
    THEN [gte |-> NoBound, lte |-> NoBound]
    ELSE [gte |-> IF Truthy(from) THEN ValBound(NewDate(from).t) ELSE NullBound,
          lte |-> IF Truthy(to) THEN ValBound(NewDate(to).t) ELSE NullBound]

AppGetLogs ==
    /\ variant = "app"
    /\ Ready
    /\ \E id \in IdParams, from \in RangeInputs, to \in RangeInputs,
          limit \in LimitInputs, failure \in StoreFailures :
        LET req         == [id |-> id, from |-> from, to |-> to, limit |-> limit]
            found       == FindById(id)
            user        == CHOOSE u \in found : TRUE
            fromDate    == NewDate(from)
            toDate      == NewDate(to)
            cond        == AppDateFilter(from, to)
            parsedLimit == parseInt(limit)
            exercisesFound ==
                IF ~isNaN(parsedLimit) /\ parsedLimit.n > 0
                THEN FindLimited(parsedLimit.n, user.id, cond.gte, cond.lte)
                ELSE Find(user.id, cond.gte, cond.lte)
            fail(status, msg, f) ==
                Respond(Json("getLog", req, status, Error(msg), LogGhost(found # {}, f)))
        IN  IF ~Castable(id)
            THEN fail(400, "ID de usuario invalido", FALSE)
            ELSE IF failure = "find"
            THEN fail(500, "Error al obtener los logs del ejercicio", TRUE)
            ELSE IF found = {}
            THEN fail(404, "Usuario no encontrado con ese ID", FALSE)
            ELSE IF Truthy(from) /\ ~fromDate.valid
            THEN fail(400, "Formato de fecha from invalido (YYYY-MM-DD)", FALSE)
            ELSE IF Truthy(to) /\ ~toDate.valid
            THEN fail(400, "Formato de fecha to invalido (YYYY-MM-DD)", FALSE)
            ELSE IF failure = "save"   \* query.exec() fails
            THEN fail(500, "Error al obtener los logs del ejercicio", TRUE)
            ELSE Respond(Json("getLog", req, 200, LogJson(user, exercisesFound),
                              LogGhost(TRUE, FALSE)))
    /\ UNCHANGED <<variant, users, exercises, now, acked>>

-----------------------------------------------------------------------------
(* src/unnamed/part_000, lines 1-74.  The User model it requires              *)
(* ('/models/User') is not among the sources: its schema follows the data     *)
(* model of the specification (username required and unique, log entries      *)
(* with a description, a numeric duration and a date).                        *)

\* the username path of the User schema: required
RouterUserValid(username) == username # ""

\* the username path of the User schema: unique
RouterDuplicateKey(username) == \E i \in DOMAIN users : users[i].username = username

\* the log entries of the User schema: description required, duration a number, date a date
RouterLogEntryValid(description, duration, date) ==
    description # "" /\ ~isNaN(duration) /\ date.valid

\* user.log of the document findById returns
RouterLog(user) == Find(user.id, NoBound, NoBound)

\* log.filter(ex => ex.date >= fromDate): no date compares with an Invalid Date
FilterFrom(log, fromDate) ==
    SelectSeq(log, LAMBDA ex : fromDate.valid /\ ex.date >= fromDate.t)

\* log.filter(ex => ex.date <= toDate)
FilterTo(log, toDate) ==
    SelectSeq(log, LAMBDA ex : toDate.valid /\ ex.date <= toDate.t)

\* the from and to filters of the log handler
RouterDateFilter(log, from, to) ==
    LET log1 == IF Truthy(from) THEN FilterFrom(log, NewDate(from)) ELSE log
    IN  IF Truthy(to) THEN FilterTo(log1, NewDate(to)) ELSE log1

RouterPostUsers ==
    /\ variant = "router"
    /\ Ready
    /\ \E username \in Usernames, ok \in BOOLEAN :
        LET req     == [username |-> username]
            newUser == NewUser(username)
            existed == RouterDuplicateKey(username)
        IN  IF ~ok \/ ~RouterUserValid(username) \/ RouterDuplicateKey(username)
            THEN /\ Respond(Unhandled("createUser", req, UserGhost(existed, FALSE, ~ok)))
                 /\ UNCHANGED users
            ELSE /\ users' = Append(users, newUser)
                 /\ Respond(Json("createUser", req, 200, UserJson(newUser),
                                 UserGhost(FALSE, TRUE, FALSE)))
    /\ UNCHANGED <<variant, exercises, now, acked>>

RouterGetUsers ==
    /\ variant = "router"
    /\ Ready
    /\ \E ok \in BOOLEAN :
        IF ok
        THEN Respond(Json("listUsers", <<>>, 200, UsersJson, [storeFailed |-> FALSE]))
        ELSE Respond(Unhandled("listUsers", <<>>, [storeFailed |-> TRUE]))
    /\ UNCHANGED <<variant, users, exercises, now, acked>>

RouterPostExercises ==
    /\ variant = "router"
    /\ Ready
    /\ \E id \in IdParams, description \in Descriptions, duration \in DurationInputs,
          date \in DateInputs, failure \in StoreFailures :
        LET req         == [id |-> id, description |-> description,
                            duration |-> duration, date |-> date]
            found       == FindById(id)
            user        == CHOOSE u \in found : TRUE
            durationNum == Number(duration)
            dateObj     == IF Truthy(date) THEN NewDate(date) ELSE DateAt(now)
            newExercise == ExerciseDoc(user.id, description, durationNum.n, dateObj.t)
            escape(f) ==
                /\ Respond(Unhandled("addExercise", req, ExerciseGhost(found # {}, FALSE, f)))
                /\ UNCHANGED <<exercises, acked>>
        IN  IF ~Castable(id)
            THEN escape(FALSE)
            ELSE IF failure = "find"
            THEN escape(TRUE)
            ELSE IF found = {}          \* user.log of null
            THEN escape(FALSE)
            ELSE IF failure = "save"
            THEN escape(TRUE)
            ELSE IF ~RouterLogEntryValid(description, durationNum, dateObj)
            THEN escape(FALSE)
            ELSE /\ SaveExercise(user, newExercise)
                 /\ Respond(Json("addExercise", req, 200, ExerciseJson(user, newExercise),
                                 ExerciseGhost(TRUE, TRUE, FALSE)))
    /\ UNCHANGED <<variant, users, now>>

RouterGetLogs ==
    /\ variant = "router"
    /\ Ready
    /\ \E id \in IdParams, from \in RangeInputs, to \in RangeInputs,
          limit \in LimitInputs, ok \in BOOLEAN :
        LET req      == [id |-> id, from |-> from, to |-> to, limit |-> limit]
            found    == FindById(id)
            user     == CHOOSE u \in found : TRUE
            log2     == RouterDateFilter(RouterLog(user), from, to)
            log3     == IF TruthyText(limit) THEN Slice0(log2, parseInt(limit)) ELSE log2
        IN  IF ~Castable(id) \/ ~ok \/ found = {}
            THEN Respond(Unhandled("getLog", req, LogGhost(found # {}, ~ok)))
            ELSE Respond(Json("getLog", req, 200, LogJson(user, log3), LogGhost(TRUE, FALSE)))
    /\ UNCHANGED <<variant, users, exercises, now, acked>>

-----------------------------------------------------------------------------
Next ==
    \/ Tick
    \/ Deliver
    \/ \E s \in Slots : ServerPostUsers(s)
    \/ \E s \in Slots : ServerPostUsersSave(s)
    \/ ServerGetUsers
    \/ ServerPostExercises
    \/ ServerGetLogs
    \/ \E s \in Slots : AppPostUsers(s)
    \/ \E s \in Slots : AppPostUsersSave(s)
    \/ AppGetUsers
    \/ AppPostExercises
    \/ AppGetLogs
    \/ RouterPostUsers
    \/ RouterGetUsers
    \/ RouterPostExercises
    \/ RouterGetLogs

Spec == Init /\ [][Next]_vars

\* The user endpoints alone: no other handler writes the users collection.
NextUsers ==
    \/ Deliver
    \/ \E s \in Slots : ServerPostUsers(s)
    \/ \E s \in Slots : ServerPostUsersSave(s)
    \/ ServerGetUsers
    \/ \E s \in Slots : AppPostUsers(s)
    \/ \E s \in Slots : AppPostUsersSave(s)
    \/ AppGetUsers
    \/ RouterPostUsers
    \/ RouterGetUsers

SpecUsers == Init /\ [][NextUsers]_vars

-----------------------------------------------------------------------------
(* Properties *)

\* the text is the numeral of a positive integer
IsPositiveIntegerText(s) ==
    /\ s # <<>>
    /\ \A i \in DOMAIN s : s[i] \in DigitChars
    /\ \E i \in DOMAIN s : s[i] # "0"

\* the text is a calendar date
IsCalendarDate(s) == \E d \in 0..MaxDay : IsoDay(d) = s

DayOf(s) == CHOOSE d \in 0..MaxDay : IsoDay(d) = s

StartOfDay(s) == DayOf(s) * TicksPerDay
EndOfDay(s) == (DayOf(s) + 1) * TicksPerDay - 1

FirstN(seq, n) == [i \in 1..(IF n <= Len(seq) THEN n ELSE Len(seq)) |-> seq[i]]

Rendered(e) ==
    [description |-> e.description, duration |-> e.duration,
     date |-> DateStrings[(e.date \div TicksPerDay) + 1]]

RenderedAll(seq) == [i \in DOMAIN seq |-> Rendered(seq[i])]

UniqueUsernames ==
    \A i, j \in DOMAIN users : users[i].username = users[j].username => i = j

\* the exercises the running variant selects for a log request, before the limit
Selected(req) ==
    CASE variant = "server" ->
            Find(req.id, ServerDateFilter(req.from, req.to).gte,
                 ServerDateFilter(req.from, req.to).lte)
      [] variant = "app" ->
            Find(req.id, AppDateFilter(req.from, req.to).gte,
                 AppDateFilter(req.from, req.to).lte)
      [] variant = "router" ->
            RouterDateFilter(RouterLog([id |-> req.id]), req.from, req.to)

LogOk == lastResp.kind = "getLog" /\ lastResp.status = 200
ExerciseResp == lastResp.kind = "addExercise"
UserResp == lastResp.kind = "createUser"

-----------------------------------------------------------------------------
(* C1: a log without limit holds exactly the exercises of the user whose   *)
(* date is on or after the start of the from day (when from is given) and  *)
(* on or before the end of the to day (when to is given).  Stated for the  *)
(* requests that give both bounds or neither.                              *)
C1_LogIsInclusiveRange ==
    (/\ LogOk
     /\ lastResp.req.limit = <<>>
     /\ lastResp.req.from = "" \/ IsCalendarDate(lastResp.req.from)
     /\ lastResp.req.to = "" \/ IsCalendarDate(lastResp.req.to)
     /\ lastResp.req.from = "" <=> lastResp.req.to = "")
    => lastResp.body.log =
         RenderedAll(SelectSeq(exercises, LAMBDA e :
            /\ e.userId = lastResp.req.id
            /\ lastResp.req.from # "" => e.date >= StartOfDay(lastResp.req.from)
            /\ lastResp.req.to # "" => e.date <= EndOfDay(lastResp.req.to)))

(* C2: with a positive integer limit n the log is the first min(n, m)      *)
(* entries of the m selected exercises, in storage order, and count is the *)
(* length of the returned log.                                             *)
C2_LimitTruncatesFilteredLog ==
    (LogOk /\ IsPositiveIntegerText(lastResp.req.limit))
    => /\ lastResp.body.log =
            FirstN(RenderedAll(Selected(lastResp.req)), parseInt(lastResp.req.limit).n)
       /\ lastResp.body.count = Len(lastResp.body.log)

\* a limit of 1 cut a date-filtered selection of two exercises, out of more stored
C2_Witness ==
    /\ LogOk
    /\ lastResp.req.limit = <<"1">>
    /\ lastResp.req.from # ""
    /\ Len(Selected(lastResp.req)) = 2
    /\ lastResp.body.count = 1

(* C3: no two users have the same username, however user creations         *)
(* interleave.                                                             *)
C3_UniqueUsernames == UniqueUsernames

\* a creation that passed the find-existing check lost the race at its save
C3_Witness ==
    /\ UserResp
    /\ lastResp.status = 400
    /\ lastResp.req.username # ""
    /\ \E i \in DOMAIN users : users[i].username = lastResp.req.username

(* C4: an add-exercise request for an existing user with an empty          *)
(* description or a duration that is not a positive integer is answered    *)
(* 400 and stores nothing; with a description and a positive integer       *)
(* duration (and no date) it succeeds.                                     *)
C4_InvalidExerciseRejected ==
    (ExerciseResp /\ lastResp.ghost.userExists /\ ~lastResp.ghost.storeFailed)
    => /\ (lastResp.req.description = "" \/ ~IsPositiveIntegerText(lastResp.req.duration))
            => (lastResp.status = 400 /\ ~lastResp.ghost.stored)
       /\ (/\ lastResp.req.description # ""
           /\ IsPositiveIntegerText(lastResp.req.duration)
           /\ lastResp.req.date = "")
            => (lastResp.status = 200 /\ lastResp.ghost.stored)

(* C5: a log request for an existing user is answered 400 when from or to  *)
(* is present and not a calendar date, or limit is present and not a       *)
(* positive integer.                                                       *)
C5_InvalidLogQueryRejected ==
    (/\ lastResp.kind = "getLog"
     /\ lastResp.ghost.userExists
     /\ ~lastResp.ghost.storeFailed
     /\ \/ (lastResp.req.from # "" /\ ~IsCalendarDate(lastResp.req.from))
        \/ (lastResp.req.to # "" /\ ~IsCalendarDate(lastResp.req.to))
        \/ (lastResp.req.limit # <<>> /\ ~IsPositiveIntegerText(lastResp.req.limit)))
    => lastResp.status = 400

(* C6: every stored exercise belongs to a stored user; an add-exercise or  *)
(* log request (otherwise valid) whose well-formed user id is the id of no *)
(* user is answered 404, and the add stores nothing.                       *)
C6_ExercisesReferenceUsers ==
    /\ \A i \in DOMAIN exercises : \E j \in DOMAIN users : users[j].id = exercises[i].userId
    /\ (/\ ExerciseResp
        /\ Castable(lastResp.req.id)
        /\ ~lastResp.ghost.userExists
        /\ ~lastResp.ghost.storeFailed
        /\ lastResp.req.description # ""
        /\ IsPositiveIntegerText(lastResp.req.duration)
        /\ lastResp.req.date = "")
       => (lastResp.status = 404 /\ ~lastResp.ghost.stored)
    /\ (/\ lastResp.kind = "getLog"
        /\ Castable(lastResp.req.id)
        /\ ~lastResp.ghost.userExists
        /\ ~lastResp.ghost.storeFailed
        /\ lastResp.req.from = "" /\ lastResp.req.to = "" /\ lastResp.req.limit = <<>>)
       => lastResp.status = 404

(* C7: a log without from, to and limit holds every exercise of the user   *)
(* whose add-exercise request was answered with success before, with the   *)
(* description, duration and date of that answer.                          *)
C7_AckedExerciseInLog ==
    (/\ LogOk
     /\ lastResp.req.from = "" /\ lastResp.req.to = "" /\ lastResp.req.limit = <<>>)
    => \A i \in DOMAIN acked :
          acked[i].id = lastResp.body.id
          => \E j \in DOMAIN lastResp.body.log :
                lastResp.body.log[j] =
                    [description |-> acked[i].description,
                     duration |-> acked[i].duration, date |-> acked[i].date]

\* the log of a user with an acknowledged exercise, asked for after an exercise of
\* another user was added
C7_Witness ==
    /\ LogOk
    /\ lastResp.req.from = "" /\ lastResp.req.to = "" /\ lastResp.req.limit = <<>>
    /\ Len(acked) = 2
    /\ acked[1].id = lastResp.body.id
    /\ acked[2].id # lastResp.body.id
    /\ lastResp.body.count = 1

(* C8: every request ends in a response with status 200, 400, 404 or 500;  *)
(* no error escapes its handler.                                           *)
C8_EveryRequestAnswered ==
    lastResp # NoResp
    => (~lastResp.escaped /\ lastResp.status \in {200, 400, 404, 500})

(* C9: an otherwise valid add-exercise request whose date is absent, empty *)
(* or unparsable succeeds and stores the current date.                     *)
C9_DateDefaultsToNow ==
    (/\ ExerciseResp
     /\ lastResp.ghost.userExists
     /\ ~lastResp.ghost.storeFailed
     /\ lastResp.req.description # ""
     /\ IsPositiveIntegerText(lastResp.req.duration)
     /\ lastResp.req.date \in {"", "garbage"})
    => /\ lastResp.status = 200
       /\ lastResp.ghost.stored
       /\ exercises[Len(exercises)].date = now
       /\ lastResp.body.date = DateStrings[(now \div TicksPerDay) + 1]

(* C10: creating a user whose username exists answers with success and the *)
(* id of the existing user, and leaves the users as they were.             *)
C10_CreateUserIdempotent ==
    (UserResp /\ lastResp.ghost.existed /\ ~lastResp.ghost.storeFailed)
    => /\ lastResp.status = 200
       /\ ~lastResp.ghost.created
       /\ \E i \in DOMAIN users :
            /\ users[i].username = lastResp.req.username
            /\ users[i].id = lastResp.body.id
       /\ UniqueUsernames

====
